---- MODULE Spec2Model ----
(***************************************************************************)
(* Elemental: lp::primal::IPF (src/src/optimization/LP/primal/IPM/IPF.cpp) *)
(* -- the infeasible path-following interior point loop, in its four       *)
(* representation variants.  Real numbers are modelled exactly, as         *)
(* normalised fractions <<numerator, denominator>>; vectors are sequences  *)
(* of fractions and matrices are sequences of rows.                        *)
(***************************************************************************)
EXTENDS Integers, Sequences, FiniteSets, TLC

(***************************************************************************)
(* Exact arithmetic on Real                                                *)
(***************************************************************************)
RECURSIVE GCD(_, _)
GCD(a, b) == IF b = 0 THEN a ELSE GCD(b, a % b)

IAbs(i) == IF i < 0 THEN -i ELSE i

\* the fraction nu/de in lowest terms with a positive denominator
Rat(nu, de) ==
    LET g == GCD(IAbs(nu), IAbs(de))
        s == IF de < 0 THEN -1 ELSE 1
    IN  <<(s * nu) \div g, (s * de) \div g>>

R0 == <<0, 1>>
R1 == <<1, 1>>

RNeg(a) == <<-a[1], a[2]>>

\* both operands are evaluated before the sum is formed
RAdd(a, b) ==
    IF {a[1], b[1]} = {0} THEN R0
    ELSE LET g == GCD(a[2], b[2])
             l == (a[2] \div g) * b[2]
         IN  Rat(a[1] * (l \div a[2]) + b[1] * (l \div b[2]), l)

RSub(a, b) == RAdd(a, RNeg(b))

\* both operands are evaluated before the product is formed
RMul(a, b) ==
    IF 0 \in {a[1], b[1]} THEN R0
    ELSE LET g1 == GCD(IAbs(a[1]), b[2])
             g2 == GCD(IAbs(b[1]), a[2])
         IN  Rat((a[1] \div g1) * (b[1] \div g2),
                 (a[2] \div g2) * (b[2] \div g1))

\* a / b, for b # 0
RDiv(a, b) == RMul(a, Rat(b[2], b[1]))

RLe(a, b) == a[1] * b[2] <= b[1] * a[2]
RLt(a, b) == a[1] * b[2] < b[1] * a[2]

RAbs(a) == <<IAbs(a[1]), a[2]>>

\* a function on 1..n as an explicit tuple
Tuple(f) == f \o <<>>

RECURSIVE RSum(_)
RSum(s) == IF s = <<>> THEN R0 ELSE RAdd(Head(s), RSum(Tail(s)))

(***************************************************************************)
(* The linear-algebra primitives the loop calls                            *)
(***************************************************************************)
Height(M) == Len(M)
Width(M) == IF Len(M) = 0 THEN 0 ELSE Len(M[1])

Dot(u, v) == RSum(Tuple([i \in 1..Len(u) |-> RMul(u[i], v[i])]))

\* || v ||_2 ^ 2 (the norm itself need not be rational)
Nrm2Sq(v) == Dot(v, v)

Scale(alpha_, v) == Tuple([i \in 1..Len(v) |-> RMul(alpha_, v[i])])

\* Axpy( alpha, u, v ): v := alpha u + v
Axpy(alpha_, u, v) == Tuple([i \in 1..Len(v) |-> RAdd(RMul(alpha_, u[i]), v[i])])

\* Shift( v, s ): every entry of v plus s
Shift(v, s) == Tuple([i \in 1..Len(v) |-> RAdd(v[i], s)])

\* DiagonalScale( LEFT, NORMAL, d, v ): v := diag(d) v
DiagonalScale(d, v) == Tuple([i \in 1..Len(v) |-> RMul(d[i], v[i])])

\* Gemv( orientation, alpha, M, u, beta, v ): v := alpha op(M) u + beta v
Gemv(orientation, alpha_, M, u, beta_, v) ==
    IF orientation = "NORMAL"
    THEN Tuple([i \in 1..Height(M) |->
            RAdd(RMul(alpha_, RSum(Tuple([j \in 1..Width(M) |-> RMul(M[i][j], u[j])]))),
                 RMul(beta_, v[i]))])
    ELSE Tuple([j \in 1..Width(M) |->
            RAdd(RMul(alpha_, RSum(Tuple([i \in 1..Height(M) |-> RMul(M[i][j], u[i])]))),
                 RMul(beta_, v[j]))])

\* the number of entries of v that are <= 0
NumNonPositive(v) == Cardinality({i \in 1..Len(v) : v[i][1] <= 0})

(***************************************************************************)
(* Residual/merit evaluation (the "Check for convergence" block)           *)
(***************************************************************************)
\* rb = b; Scale( -1, rb ); Gemv( NORMAL, 1, A, x, 1, rb ):  rb = A x - b
PrimalResidual(A_, b_, x_) ==
    Gemv("NORMAL", R1, A_, x_, R1, Scale(RNeg(R1), b_))

\* rc = c; Gemv( TRANSPOSE, 1, A, y, 1, rc ); Axpy( -1, z, rc ):
\* rc = A^T y - z + c
DualResidual(A_, c_, y_, z_) ==
    Axpy(RNeg(R1), z_, Gemv("TRANSPOSE", R1, A_, y_, R1, c_))

\* objConv = |primObj - dualObj| / (1 + |primObj|),
\* primObj = Dot(c,x), dualObj = -Dot(b,y)
ObjConv(b_, c_, x_, y_) ==
    LET primObj == Dot(c_, x_)
        dualObj == RNeg(Dot(b_, y_))
    IN  RDiv(RAbs(RSub(primObj, dualObj)), RAdd(R1, RAbs(primObj)))

\* sqrt(s) / (1 + sqrt(k)) <= tol, for rational s, k >= 0 and tol >= 0,
\* decided exactly: with u = s / tol^2 and w = (u - 1 - k) / 2 the
\* comparison is sqrt(u) <= 1 + sqrt(k), i.e. u <= 1 + k + 2 sqrt(k),
\* i.e. w <= sqrt(k), i.e. w <= 0 or w^2 <= k.
NormRatioLe(s, k, tol) ==
    IF tol[1] = 0 THEN s[1] = 0
    ELSE LET u == RDiv(s, RMul(tol, tol))
             w == RDiv(RSub(RSub(u, R1), k), <<2, 1>>)
         IN  w[1] <= 0 \/ RLe(RMul(w, w), k)

\* rbConv <= tol, rbConv = Nrm2(rb) / (1 + Nrm2(b))
RbConvLe(rb_, b_, tol) == NormRatioLe(Nrm2Sq(rb_), Nrm2Sq(b_), tol)

\* rcConv <= tol, rcConv = Nrm2(rc) / (1 + Nrm2(c))
RcConvLe(rc_, c_, tol) == NormRatioLe(Nrm2Sq(rc_), Nrm2Sq(c_), tol)

\* objConv <= ctrl.tol && rbConv <= ctrl.tol && rcConv <= ctrl.tol
Converged(A_, b_, c_, x_, y_, z_, tol) ==
    /\ RLe(ObjConv(b_, c_, x_, y_), tol)
    /\ RbConvLe(PrimalResidual(A_, b_, x_), b_, tol)
    /\ RcConvLe(DualResidual(A_, c_, y_, z_), c_, tol)

(***************************************************************************)
(* The Newton step: r_mu, the three formulations, solve and expansion      *)
(***************************************************************************)
\* faulty variant: the duality measure without the division by n
RmuNoAverage(x_, z_, centering) ==
    Shift(DiagonalScale(x_, z_), RNeg(RMul(centering, Dot(x_, z_))))

\* mu = Dot(x,z) / n; rmu = z; DiagonalScale( x, rmu );
\* Shift( rmu, -centering*mu )
DualityMeasure(x_, z_) == RDiv(Dot(x_, z_), <<Len(x_), 1>>)

Rmu(x_, z_, centering) ==
    Shift(DiagonalScale(x_, z_), RNeg(RMul(centering, DualityMeasure(x_, z_))))

\* M without row i and column j
Minor(M, i, j) ==
    Tuple([r \in 1..(Len(M) - 1) |->
        Tuple([q \in 1..(Len(M) - 1) |->
            M[IF r < i THEN r ELSE r + 1][IF q < j THEN q ELSE q + 1]])])

\* u[j] v[j] - u[j+1] v[j+1] + ... for odd j, and its negation for even j
RECURSIVE Laplace(_, _, _)
Laplace(u, v, j) ==
    IF j > Len(v) THEN R0
    ELSE RAdd(RMul(IF j % 2 = 1 THEN u[j] ELSE RNeg(u[j]), v[j]),
              Laplace(u, v, j + 1))

\* the expansion along the first row, over the minors of its nonzero entries
RECURSIVE Det(_)
Det(M) ==
    IF Len(M) = 1 THEN M[1][1]
    ELSE Laplace(M[1],
                 [j \in 1..Len(M) |->
                     IF M[1][j][1] = 0 THEN R0 ELSE Det(Minor(M, 1, j))]
                 \o <<>>,
                 1)

\* the symmetric matrix stored in the lower triangle of J
LowerSymmetric(J) ==
    Tuple([i \in 1..Len(J) |->
        Tuple([j \in 1..Len(J) |-> IF j <= i THEN J[i][j] ELSE J[j][i]])])

Singular(J) == Det(LowerSymmetric(J))[1] = 0

\* SymmetricSolve( LOWER, NORMAL, J, d ): d := inv(J) d, J read from its
\* lower triangle (Cramer's rule; J nonsingular)
SymmetricSolve(J, d) ==
    LET S == LowerSymmetric(J)
        dt == Det(S)
    IN  Tuple([k \in 1..Len(d) |->
            RDiv(Det(Tuple([i \in 1..Len(S) |->
                        Tuple([j \in 1..Len(S) |-> IF j = k THEN d[i] ELSE S[i][j]])])),
                 dt)])

\* KKT( A, x, z, J ): with unknowns ordered (dx, dy, dz),
\*   |  0   A^T     -I    |
\*   |  A    0       0    |
\*   | -I    0   -diag(x/z) |
KKT(A_, x_, z_) ==
    LET m == Height(A_)
        n == Width(A_)
    IN  Tuple([i \in 1..(2 * n + m) |->
          Tuple([j \in 1..(2 * n + m) |->
            IF i <= n
            THEN IF j <= n THEN R0
                 ELSE IF j <= n + m THEN A_[j - n][i]
                 ELSE IF j - n - m = i THEN RNeg(R1) ELSE R0
            ELSE IF i <= n + m
            THEN IF j <= n THEN A_[i - n][j] ELSE R0
            ELSE IF j = i - n - m THEN RNeg(R1)
                 ELSE IF j = i THEN RNeg(RDiv(x_[i - n - m], z_[i - n - m]))
                 ELSE R0])])

\* KKTRHS( rc, rb, rmu, z, d ): d = ( -rc, -rb, rmu / z )
KKTRHS(rc_, rb_, rmu_, z_) ==
    Scale(RNeg(R1), rc_) \o Scale(RNeg(R1), rb_)
        \o Tuple([i \in 1..Len(z_) |-> RDiv(rmu_[i], z_[i])])

\* ExpandSolution( m, n, d, dx, dy, dz ): the three slices of d
ExpandSolution(m, n, d) ==
    [dx |-> SubSeq(d, 1, n), dy |-> SubSeq(d, n + 1, n + m),
     dz |-> SubSeq(d, n + m + 1, 2 * n + m)]

\* AugmentedKKT( A, x, z, J ):
\*   | diag(z/x)  A^T |
\*   |    A        0  |
AugmentedKKT(A_, x_, z_) ==
    LET m == Height(A_)
        n == Width(A_)
    IN  Tuple([i \in 1..(n + m) |->
          Tuple([j \in 1..(n + m) |->
            IF i <= n
            THEN IF j <= n THEN (IF i = j THEN RDiv(z_[i], x_[i]) ELSE R0)
                 ELSE A_[j - n][i]
            ELSE IF j <= n THEN A_[i - n][j] ELSE R0])])

\* AugmentedKKTRHS( x, rc, rb, rmu, d ): d = ( -rc - rmu / x, -rb )
AugmentedKKTRHS(x_, rc_, rb_, rmu_) ==
    Tuple([i \in 1..Len(x_) |-> RNeg(RAdd(rc_[i], RDiv(rmu_[i], x_[i])))])
        \o Scale(RNeg(R1), rb_)

\* ExpandAugmentedSolution( x, z, rmu, d, dx, dy, dz ):
\* dx, dy are the slices of d and dz = -(rmu + z o dx) / x
ExpandAugmentedSolution(x_, z_, rmu_, d) ==
    LET n == Len(x_)
        ddx == SubSeq(d, 1, n)
    IN  [dx |-> ddx, dy |-> SubSeq(d, n + 1, Len(d)),
         dz |-> Tuple([i \in 1..n |->
                   RNeg(RDiv(RAdd(rmu_[i], RMul(z_[i], ddx[i])), x_[i]))])]

\* NormalKKT( A, x, z, J ): J = A diag(x/z) A^T
NormalKKT(A_, x_, z_) ==
    Tuple([i \in 1..Height(A_) |->
      Tuple([j \in 1..Height(A_) |->
        RSum(Tuple([k \in 1..Width(A_) |->
                RMul(RMul(A_[i][k], RDiv(x_[k], z_[k])), A_[j][k])]))])])

\* NormalKKTRHS( A, x, z, rc, rb, rmu, dy ):
\* dy = rb - A ( (x o rc + rmu) / z )
NormalKKTRHS(A_, x_, z_, rc_, rb_, rmu_) ==
    Gemv("NORMAL", RNeg(R1), A_,
         Tuple([k \in 1..Len(x_) |->
            RDiv(RAdd(RMul(x_[k], rc_[k]), rmu_[k]), z_[k])]),
         R1, rb_)

\* ExpandNormalSolution( A, c, x, z, rc, rmu, dx, dy, dz ):
\* dz = rc + A^T dy and dx = -(rmu + x o dz) / z
ExpandNormalSolution(A_, c_, x_, z_, rc_, rmu_, ddy) ==
    LET ddz == Gemv("TRANSPOSE", R1, A_, ddy, R1, rc_)
    IN  [dy |-> ddy, dz |-> ddz,
         dx |-> Tuple([i \in 1..Len(x_) |->
                   RNeg(RDiv(RAdd(rmu_[i], RMul(x_[i], ddz[i])), z_[i]))])]

\* the "if( ctrl.system == ... )" block: build, solve, expand
SystemMatrix(system, A_, x_, z_) ==
    IF system = "FULL_KKT" THEN KKT(A_, x_, z_)
    ELSE IF system = "AUGMENTED_KKT" THEN AugmentedKKT(A_, x_, z_)
    ELSE NormalKKT(A_, x_, z_)

\* faulty variant: the augmented expansion called with x and z exchanged
ComputeDirectionSwapped(system, A_, c_, x_, z_, rc_, rb_, rmu_) ==
    IF system = "FULL_KKT"
    THEN ExpandSolution(Height(A_), Width(A_),
            SymmetricSolve(KKT(A_, x_, z_), KKTRHS(rc_, rb_, rmu_, z_)))
    ELSE IF system = "AUGMENTED_KKT"
    THEN ExpandAugmentedSolution(z_, x_, rmu_,
            SymmetricSolve(AugmentedKKT(A_, x_, z_),
                           AugmentedKKTRHS(x_, rc_, rb_, rmu_)))
    ELSE ExpandNormalSolution(A_, c_, x_, z_, rc_, rmu_,
            SymmetricSolve(NormalKKT(A_, x_, z_),
                           NormalKKTRHS(A_, x_, z_, rc_, rb_, rmu_)))

ComputeDirection(system, A_, c_, x_, z_, rc_, rb_, rmu_) ==
    IF system = "FULL_KKT"
    THEN ExpandSolution(Height(A_), Width(A_),
            SymmetricSolve(KKT(A_, x_, z_), KKTRHS(rc_, rb_, rmu_, z_)))
    ELSE IF system = "AUGMENTED_KKT"
    THEN ExpandAugmentedSolution(x_, z_, rmu_,
            SymmetricSolve(AugmentedKKT(A_, x_, z_),
                           AugmentedKKTRHS(x_, rc_, rb_, rmu_)))
    ELSE ExpandNormalSolution(A_, c_, x_, z_, rc_, rmu_,
            SymmetricSolve(NormalKKT(A_, x_, z_),
                           NormalKKTRHS(A_, x_, z_, rc_, rb_, rmu_)))

(***************************************************************************)
(* Bounds and inputs of the model                                          *)
(***************************************************************************)
\* the largest ctrl.maxIts explored, and the number of updates after which
\* a run with a negative ctrl.maxIts is no longer followed
MaxIts == 2

RV(v) == Tuple([i \in 1..Len(v) |-> <<v[i], 1>>])
RM(M) == Tuple([i \in 1..Len(M) |-> RV(M[i])])

Input(A_, b_, c_, x_, y_, z_) ==
    [A |-> RM(A_), b |-> RV(b_), c |-> RV(c_),
     x |-> RV(x_), y |-> RV(y_), z |-> RV(z_)]

\* problem data with the iterate the caller passes in
Inputs ==
    { Input(<<<<1, 1>>>>, <<2>>, <<1, 1>>, <<1, 1>>, <<0>>, <<1, 1>>),
      Input(<<<<1, 1>>>>, <<2>>, <<1, 1>>, <<1, 2>>, <<1>>, <<2, 1>>),
      Input(<<<<1, 1>>>>, <<1>>, <<1, 2>>, <<1, 1>>, <<-1>>, <<1, 1>>),
      Input(<<<<1, 1>>>>, <<1>>, <<1, 2>>, <<1, 0>>, <<-1>>, <<0, 1>>),
      Input(<<<<1, 1>>>>, <<1>>, <<1, 2>>, <<0, -1>>, <<0>>, <<1, 1>>),
      Input(<<<<0, 0>>>>, <<1>>, <<1, 1>>, <<1, 1>>, <<0>>, <<1, 1>>),
      Input(<<<<2>>>>, <<2>>, <<2>>, <<1>>, <<0>>, <<1>>) }

Variants == {"DenseSerial", "DenseDist", "SparseSerial", "SparseDist"}
Iterating == {"DenseSerial", "DenseDist", "SparseDist"}
Systems == {"FULL_KKT", "AUGMENTED_KKT", "NORMAL_KKT"}
Tols == {<<1, 2>>, <<1, 10>>}
Centerings == {<<1, 2>>}
\* the step lengths a line search may return
Alphas == {<<1, 1>>, <<1, 2>>}

Ctrls ==
    [initialized : BOOLEAN, tol : Tols, maxIts : -1..MaxIts,
     centering : Centerings, system : Systems, print : BOOLEAN]

InCone(v) == NumNonPositive(v) = 0

(***************************************************************************)
(* Collaborators of the loop                                               *)
(***************************************************************************)
\* lp::primal::Initialize( A, b, c, x, y, z ): overwrites (x,y,z) with a
\* starting iterate that has x > 0 and z > 0
Initialize(A_, b_, c_) ==
    { [x |-> i.x, y |-> i.y, z |-> i.z] :
        i \in { j \in Inputs : /\ j.A = A_ /\ j.b = b_ /\ j.c = c_
                               /\ InCone(j.x) /\ InCone(j.z) } }

\* IPFLineSearch( A, b, c, x, y, z, dx, dy, dz, ... ): a step length in
\* (0,1] that keeps x + alpha dx > 0 and z + alpha dz > 0
IPFLineSearch(x_, z_, dx_, dz_) ==
    { a \in Alphas : /\ InCone(Axpy(a, dx_, x_)) /\ InCone(Axpy(a, dz_, z_)) }

(***************************************************************************)
(* State                                                                   *)
(***************************************************************************)
VARIABLES
    variant,    \* which IPF overload was called
    A, b, c,    \* problem data (const references)
    ctrl,       \* IPFCtrl (const reference)
    x, y, z,    \* the iterate (in/out references)
    args0,      \* the arguments as they were at the call
    pc,         \* position in the body of IPF
    numIts,     \* the loop counter
    err,        \* the exception the call ended with, or "none"
    errCounts,  \* <<xNumNonPos, zNumNonPos>> carried by the cone error
    rb, rc, rmu,
    dx, dy, dz,
    dxError, dyError, dzError,
    alpha,
    events,     \* the steps of the body executed so far, <<step, numIts>>
    out,        \* what was written to std::cout, <<line, numIts>>
    initCalls,  \* number of calls of lp::primal::Initialize
    ordering,   \* map, invMap, sepTree, info of the sparse-distributed loop
    ndIts,      \* the iterations in which the loop ran NestedDissection
    frontTree,  \* JFrontTree: what it was last initialized from
    factorization,  \* the factorization last run on JFrontTree
    workers,    \* per process: the operations it issued, in order
    applyQ,     \* lq::ApplyQ: overload, side, orientation, sizes of d and B
    applyQPc,   \* position in the body of lq::ApplyQ
    applyQOps,  \* the calls lq::ApplyQ has made on B, in order
    BScaled,    \* per entry of B: how often DiagonalScale went over it
    trsm,       \* TwoSidedTrsmLVar5: overload, build, diag, sizes of A and L
    trsmPc,     \* position in the body of TwoSidedTrsmLVar5
    trsmErr,    \* the std::logic_error it threw, or "none"
    ATLHeight,  \* ATL.Height()
    trsmPasses, \* per pass of the loop: ATL.Height() at its start, the
                \* height of A11, the entries of A it wrote
    LWritten    \* the entries of L written

ipfVars == <<variant, A, b, c, ctrl, x, y, z, args0, pc, numIts, err,
             errCounts, rb, rc, rmu, dx, dy, dz, dxError, dyError, dzError,
             alpha, events, out, initCalls, ordering, ndIts, frontTree,
             factorization, workers>>

sparseVars == <<ordering, ndIts, frontTree, factorization>>

applyQVars == <<applyQ, applyQPc, applyQOps, BScaled>>

trsmVars == <<trsm, trsmPc, trsmErr, ATLHeight, trsmPasses, LWritten>>

kernelVars == <<applyQVars, trsmVars>>

vars == <<ipfVars, kernelVars>>

Terminal == {"converged", "failed"}

(***************************************************************************)
(* The sparse-direct pipeline of the sparse-distributed overload           *)
(***************************************************************************)
\* MaxNorm( J ): the largest absolute value of an entry
RMax(a, b_) == IF RLe(a, b_) THEN b_ ELSE a

RECURSIVE RMaxOf(_)
RMaxOf(s) == IF s = <<>> THEN R0 ELSE RMax(Head(s), RMaxOf(Tail(s)))

MaxNorm(J) ==
    RMaxOf(Tuple([i \in 1..Len(J) |->
                RMaxOf(Tuple([j \in 1..Len(J[i]) |-> RAbs(J[i][j])]))]))

\* sign * epsilon^(num/den), epsilon = lapack::MachineEpsilon<Real>()
EpsPow(sign, num, den) == [sign |-> sign, pow |-> <<num, den>>]

\* Pow(epsilon,Real(0.75)), Pow(epsilon,Real(0.5)), Pow(epsilon,Real(0.5))
regMagPrimal == EpsPow(1, 3, 4)
regMagLagrange == EpsPow(1, 1, 2)
regMagDual == EpsPow(1, 1, 2)

EpsNeg(e) == [sign |-> -e.sign, pow |-> e.pow]

\* faulty variant: the Lagrange block is taken to end at row m
RegCandShortLagrange(system, m, n) ==
    IF system = "FULL_KKT"
    THEN Tuple([k \in 1..(m + 2 * n) |->
            LET i == k - 1
            IN  IF i < n THEN regMagPrimal
                ELSE IF i < m THEN EpsNeg(regMagLagrange)
                ELSE EpsNeg(regMagDual)])
    ELSE IF system = "AUGMENTED_KKT"
    THEN Tuple([k \in 1..(n + m) |->
            LET i == k - 1
            IN  IF i < m THEN regMagPrimal
                ELSE EpsNeg(regMagLagrange)])
    ELSE <<>>

\* regCand as the loop fills it, by global row index i (0-based in the code)
RegCand(system, m, n) ==
    IF system = "FULL_KKT"
    THEN Tuple([k \in 1..(m + 2 * n) |->
            LET i == k - 1
            IN  IF i < n THEN regMagPrimal
                ELSE IF i < n + m THEN EpsNeg(regMagLagrange)
                ELSE EpsNeg(regMagDual)])
    ELSE IF system = "AUGMENTED_KKT"
    THEN Tuple([k \in 1..(n + m) |->
            LET i == k - 1
            IN  IF i < n THEN regMagPrimal
                ELSE EpsNeg(regMagLagrange)])
    ELSE <<>>

\* reg: Zeros( reg, m+2*n, 1 ) or Zeros( reg, m+n, 1 ); untouched for
\* NORMAL_KKT
Reg(system, m, n) ==
    IF system = "FULL_KKT" THEN Tuple([k \in 1..(m + 2 * n) |-> R0])
    ELSE IF system = "AUGMENTED_KKT" THEN Tuple([k \in 1..(n + m) |-> R0])
    ELSE <<>>

NoFactorization ==
    [routine |-> "none", frontType |-> "none", pivTol |-> <<>>,
     regCand |-> <<>>, reg |-> <<>>, solve |-> "none"]

\* the factorization and solve the loop runs on JFrontTree; pivTol is the
\* factor of epsilon in MaxNorm(J)*epsilon
Factorization(system, J, m, n) ==
    IF system = "NORMAL_KKT"
    THEN [routine |-> "LDL", frontType |-> "LDL_INTRAPIV_1D",
          pivTol |-> <<>>, regCand |-> <<>>, reg |-> <<>>,
          solve |-> "SolveWithIterativeRefinement"]
    ELSE [routine |-> "RegularizedLDL", frontType |-> "LDL_1D",
          pivTol |-> MaxNorm(J), regCand |-> RegCand(system, m, n),
          reg |-> Reg(system, m, n), solve |-> "Solve"]

NoOrdering == [by |-> "none", system |-> "none", size |-> 0, at |-> -1]

NoFrontTree == [at |-> -1, J |-> <<>>, ordering |-> NoOrdering]

\* the metadata lp::primal::Initialize leaves in map, invMap, sepTree, info:
\* that of its augmented KKT system
InitializeOrdering(m, n) ==
    [by |-> "Initialize", system |-> "AUGMENTED_KKT", size |-> n + m,
     at |-> -1]

\* what the loop's map, invMap, sepTree, info hold after the Initialize
\* block: the initializer's metadata only for the augmented formulation
EnterOrdering ==
    IF /\ variant = "SparseDist" /\ ~ctrl.initialized
       /\ ctrl.system = "AUGMENTED_KKT"
    THEN InitializeOrdering(Height(A), Width(A))
    ELSE ordering

\* faulty variant: nested dissection is run in every iteration
RunsNestedDissectionEveryIteration(system, initialized, k) ==
    IF system = "AUGMENTED_KKT" THEN initialized ELSE TRUE

\* faulty variant: the augmented path tests !ctrl.initialized
RunsNestedDissectionInverted(system, initialized, k) ==
    IF system = "AUGMENTED_KKT" THEN ~initialized /\ k = 0 ELSE k = 0

\* the guards of the three NestedDissection calls
RunsNestedDissection(system, initialized, k) ==
    IF system = "AUGMENTED_KKT" THEN initialized /\ k = 0 ELSE k = 0

\* ordering, front tree and factorization of one pass through the solve
SparseDirectSetup ==
    IF variant = "SparseDist"
    THEN LET J == SystemMatrix(ctrl.system, A, x, z)
             nd == RunsNestedDissection(ctrl.system, ctrl.initialized, numIts)
             ord == IF nd
                    THEN [by |-> "NestedDissection", system |-> ctrl.system,
                          size |-> Len(J), at |-> numIts]
                    ELSE ordering
         IN  /\ ordering' = ord
             /\ ndIts' = IF nd THEN Append(ndIts, numIts) ELSE ndIts
             /\ frontTree' = [at |-> numIts, J |-> J, ordering |-> ord]
             /\ factorization' =
                    Factorization(ctrl.system, J, Height(A), Width(A))
    ELSE UNCHANGED sparseVars

(***************************************************************************)
(* The processes of the distributed overloads                              *)
(***************************************************************************)
\* number of processes of the grid or communicator
NumRanks == 2

Ranks == 0..(NumRanks - 1)

\* the function f on the ranks 0..n, with its values computed
RECURSIVE PerRank(_, _)
PerRank(f, n) ==
    IF n = 0 THEN (0 :> f[0]) ELSE PerRank(f, n - 1) @@ (n :> f[n])

Distributed == {"DenseDist", "SparseDist"}

\* an operation on distributed operands, which every process has to enter
Call(name) == <<"call", name>>
\* a branch of the control flow
Decide(branch) == <<"decision", branch>>
\* a write to std::cout
Cout(line) == <<"cout", line>>
\* an access to the locally owned entries
Local(name) == <<"local", name>>

\* dzError.IsLocalCol(0) on a 1 x NumRanks grid with rowAlign 0
IsLocalCol(j, r) == (j % NumRanks) = r

\* Nrm2( b ), Nrm2( c ), Initialize
EnterOps(r) ==
    <<Call("Nrm2"), Call("Nrm2")>>
    \o (IF ctrl.initialized THEN <<>> ELSE <<Call("Initialize")>>)

ConeCheckOps(r) ==
    <<Call("NumNonPositive"), Call("NumNonPositive"),
      Decide(IF NumNonPositive(x) > 0 \/ NumNonPositive(z) > 0
             THEN "LogicError" ELSE "continue")>>

\* faulty variant: the norm of rc is taken inside the branch that prints
ConvergenceCheckOpsNormInPrint(r) ==
    LET conv == pc' = "converged"
    IN  <<Call("Dot"), Call("Dot"),
          Call("Copy"), Call("Scale"), Call("Gemv"), Call("Nrm2"),
          Call("Copy"), Call("Gemv"), Call("Axpy"),
          Decide(IF conv THEN "break" ELSE "continue")>>
        \o (IF ~conv /\ ctrl.print /\ r = 0
            THEN <<Call("Nrm2"), Cout("iter")>> ELSE <<>>)

ConvergenceCheckOps(r) ==
    LET conv == pc' = "converged"
    IN  <<Call("Dot"), Call("Dot"),
          Call("Copy"), Call("Scale"), Call("Gemv"), Call("Nrm2"),
          Call("Copy"), Call("Gemv"), Call("Axpy"), Call("Nrm2"),
          Decide(IF conv THEN "break" ELSE "continue")>>
        \o (IF ~conv /\ ctrl.print /\ r = 0 THEN <<Cout("iter")>> ELSE <<>>)

IterationLimitOps(r) ==
    <<Decide(IF numIts = ctrl.maxIts THEN "RuntimeError" ELSE "continue")>>

\* build, factor, solve, expand
SolveOps(r) ==
    IF variant = "SparseDist"
    THEN <<Call("KKT"), Call("KKTRHS")>>
         \o (IF ctrl.system = "NORMAL_KKT"
             THEN <<>>
             ELSE <<Call("MaxNorm"), Call("Resize"), Local("SetLocal"),
                    Call("Zeros")>>)
         \o (IF RunsNestedDissection(ctrl.system, ctrl.initialized, numIts)
             THEN <<Call("NestedDissection"), Call("FormInverse")>>
             ELSE <<>>)
         \o <<Call("JFrontTree.Initialize")>>
         \o (IF ctrl.system = "NORMAL_KKT"
             THEN <<Call("LDL"), Call("SolveWithIterativeRefinement")>>
             ELSE <<Call("Pull"), Call("Pull"), Call("RegularizedLDL"),
                    Call("Push"), Call("Pull"), Call("Solve"),
                    Call("Push")>>)
    ELSE <<Call("KKT"), Call("KKTRHS"), Call("SymmetricSolve")>>

\* the "Sanity checks" block and its print
SanityCheckOps(r) ==
    <<Call("Nrm2"), Call("Copy")>>
    \o (IF variant = "SparseDist" \/ IsLocalCol(0, r)
        THEN <<Local("UpdateLocal")>> ELSE <<>>)
    \o <<Call("Nrm2"),
         Call("Copy"), Call("Gemv"), Call("Axpy"), Call("Nrm2"),
         Call("Copy"), Call("Gemv"), Call("Nrm2")>>
    \o (IF ctrl.print /\ r = 0 THEN <<Cout("errors")>> ELSE <<>>)

NewtonStepOps(r) ==
    <<Call("Dot"), Call("Copy"), Call("DiagonalScale"), Call("Shift")>>
    \o SolveOps(r)
    \o (IF pc' = "failed"
        THEN <<Decide("breakdown")>>
        ELSE <<Call("ExpandSolution")>> \o SanityCheckOps(r))

LineSearchOps(r) ==
    <<Call("IPFLineSearch")>>
    \o (IF ctrl.print /\ r = 0 THEN <<Cout("alpha")>> ELSE <<>>)

TakeStepOps(r) == <<Call("Axpy"), Call("Axpy"), Call("Axpy")>>

\* every process of a distributed overload runs the step
Issue(ops) ==
    workers' = PerRank([r \in Ranks |->
                            IF variant \in Distributed
                            THEN workers[r] \o ops[r]
                            ELSE workers[r]], NumRanks - 1)

(***************************************************************************)
(* A routine that is not being called                                      *)
(***************************************************************************)
ApplyQIdle ==
    /\ applyQ = [overload |-> "none", side |-> "none", orientation |-> "none",
                 dHeight |-> 0, BHeight |-> 0, BWidth |-> 0]
    /\ applyQPc = "idle"
    /\ applyQOps = <<>>
    /\ BScaled = <<>>

TrsmIdle ==
    /\ trsm = [overload |-> "none", build |-> "none", diag |-> "none",
               AHeight |-> 0, AWidth |-> 0, LHeight |-> 0, LWidth |-> 0,
               blocksize |-> 0]
    /\ trsmPc = "idle"
    /\ trsmErr = "none"
    /\ ATLHeight = 0
    /\ trsmPasses = <<>>
    /\ LWritten = {}

IPFIdle ==
    /\ variant = "none"
    /\ ctrl = [initialized |-> TRUE, tol |-> R0, maxIts |-> 0,
               centering |-> R0, system |-> "none", print |-> FALSE]
    /\ A = <<>> /\ b = <<>> /\ c = <<>>
    /\ x = <<>> /\ y = <<>> /\ z = <<>>
    /\ args0 = [A |-> A, b |-> b, c |-> c, ctrl |-> ctrl,
                x |-> x, y |-> y, z |-> z]
    /\ pc = "idle"
    /\ numIts = 0
    /\ err = "none"
    /\ errCounts = <<0, 0>>
    /\ rb = <<>> /\ rc = <<>> /\ rmu = <<>>
    /\ dx = <<>> /\ dy = <<>> /\ dz = <<>>
    /\ dxError = <<>> /\ dyError = <<>> /\ dzError = <<>>
    /\ alpha = R0
    /\ events = <<>>
    /\ out = <<>>
    /\ initCalls = 0
    /\ ordering = NoOrdering
    /\ ndIts = <<>>
    /\ frontTree = NoFrontTree
    /\ factorization = NoFactorization
    /\ workers = PerRank([r \in Ranks |-> <<>>], NumRanks - 1)

Init ==
    /\ variant \in Variants
    /\ ctrl \in Ctrls
    /\ \E i \in Inputs :
        /\ A = i.A /\ b = i.b /\ c = i.c
        /\ x = i.x /\ y = i.y /\ z = i.z
    /\ args0 = [A |-> A, b |-> b, c |-> c, ctrl |-> ctrl,
                x |-> x, y |-> y, z |-> z]
    /\ pc = "entry"
    /\ numIts = 0
    /\ err = "none"
    /\ errCounts = <<0, 0>>
    /\ rb = <<>> /\ rc = <<>> /\ rmu = <<>>
    /\ dx = <<>> /\ dy = <<>> /\ dz = <<>>
    /\ dxError = <<>> /\ dyError = <<>> /\ dzError = <<>>
    /\ alpha = R0
    /\ events = <<>>
    /\ out = <<>>
    /\ initCalls = 0
    /\ ordering = NoOrdering
    /\ ndIts = <<>>
    /\ frontTree = NoFrontTree
    /\ factorization = NoFactorization
    /\ workers = PerRank([r \in Ranks |-> <<>>], NumRanks - 1)
    /\ ApplyQIdle
    /\ TrsmIdle

(***************************************************************************)
(* The sparse-serial overload                                              *)
(***************************************************************************)
\* faulty variant: the initializer runs before the error is raised
SparseSerialInitializes ==
    /\ variant = "SparseSerial"
    /\ pc = "entry"
    /\ IF ctrl.initialized
       THEN UNCHANGED <<x, y, z>>
       ELSE \E s \in Initialize(A, b, c) :
                /\ x' = s.x /\ y' = s.y /\ z' = s.z
    /\ pc' = "failed"
    /\ err' = "UnsupportedRepresentation"
    /\ UNCHANGED <<variant, A, b, c, ctrl, args0, numIts, errCounts,
                   rb, rc, rmu, dx, dy, dz, dxError, dyError, dzError, alpha,
                   events, out>>
    /\ UNCHANGED <<initCalls, sparseVars, workers, kernelVars>>

\* LogicError("Sequential sparse-direct solvers not yet supported")
SparseSerialIPF ==
    /\ variant = "SparseSerial"
    /\ pc = "entry"
    /\ pc' = "failed"
    /\ err' = "UnsupportedRepresentation"
    /\ UNCHANGED <<variant, A, b, c, ctrl, x, y, z, args0, numIts, errCounts,
                   rb, rc, rmu, dx, dy, dz, dxError, dyError, dzError, alpha,
                   events, out>>
    /\ UNCHANGED <<initCalls, sparseVars, workers, kernelVars>>

(***************************************************************************)
(* The iterating overloads                                                 *)
(***************************************************************************)
\* if( !ctrl.initialized ) lp::primal::Initialize( A, b, c, x, y, z );
Enter ==
    /\ variant \in Iterating
    /\ pc = "entry"
    /\ IF ctrl.initialized
       THEN UNCHANGED <<x, y, z>>
       ELSE \E s \in Initialize(A, b, c) :
                /\ x' = s.x /\ y' = s.y /\ z' = s.z
    /\ pc' = "cone"
    /\ UNCHANGED <<variant, A, b, c, ctrl, args0, numIts, err, errCounts,
                   rb, rc, rmu, dx, dy, dz, dxError, dyError, dzError, alpha,
                   events, out>>
    /\ initCalls' = IF ctrl.initialized THEN initCalls ELSE initCalls + 1
    /\ ordering' = EnterOrdering
    /\ Issue([r \in Ranks |-> EnterOps(r)])
    /\ UNCHANGED <<ndIts, frontTree, factorization, kernelVars>>

\* faulty variant: the error needs both x and z to leave the cone
ConeCheckBoth ==
    /\ pc = "cone"
    /\ events' = Append(events, <<"cone", numIts>>)
    /\ LET xNumNonPos == NumNonPositive(x)
           zNumNonPos == NumNonPositive(z)
       IN  IF xNumNonPos > 0 /\ zNumNonPos > 0
           THEN /\ pc' = "failed"
                /\ err' = "InfeasibleIterate"
                /\ errCounts' = <<xNumNonPos, zNumNonPos>>
           ELSE /\ pc' = "conv"
                /\ UNCHANGED <<err, errCounts>>
    /\ Issue([r \in Ranks |-> ConeCheckOps(r)])
    /\ UNCHANGED <<variant, A, b, c, ctrl, x, y, z, args0, numIts,
                   rb, rc, rmu, dx, dy, dz, dxError, dyError, dzError, alpha,
                   out>>
    /\ UNCHANGED <<initCalls, sparseVars, kernelVars>>

\* Ensure that x and z are in the cone
ConeCheck ==
    /\ pc = "cone"
    /\ events' = Append(events, <<"cone", numIts>>)
    /\ LET xNumNonPos == NumNonPositive(x)
           zNumNonPos == NumNonPositive(z)
       IN  IF xNumNonPos > 0 \/ zNumNonPos > 0
           THEN /\ pc' = "failed"
                /\ err' = "InfeasibleIterate"
                /\ errCounts' = <<xNumNonPos, zNumNonPos>>
           ELSE /\ pc' = "conv"
                /\ UNCHANGED <<err, errCounts>>
    /\ Issue([r \in Ranks |-> ConeCheckOps(r)])
    /\ UNCHANGED <<variant, A, b, c, ctrl, x, y, z, args0, numIts,
                   rb, rc, rmu, dx, dy, dz, dxError, dyError, dzError, alpha,
                   out>>
    /\ UNCHANGED <<initCalls, sparseVars, kernelVars>>

\* faulty variant: one ratio within the tolerance is enough to stop
ConvergenceCheckAny ==
    /\ pc = "conv"
    /\ events' = Append(events, <<"conv", numIts>>)
    /\ rb' = PrimalResidual(A, b, x)
    /\ rc' = DualResidual(A, c, y, z)
    /\ IF \/ RLe(ObjConv(b, c, x, y), ctrl.tol)
          \/ RbConvLe(rb', b, ctrl.tol)
          \/ RcConvLe(rc', c, ctrl.tol)
       THEN /\ pc' = "converged"
            /\ out' = out
       ELSE /\ pc' = "cap"
            /\ out' = IF ctrl.print THEN Append(out, <<"iter", numIts>>)
                      ELSE out
    /\ Issue([r \in Ranks |-> ConvergenceCheckOps(r)])
    /\ UNCHANGED <<variant, A, b, c, ctrl, x, y, z, args0, numIts, err,
                   errCounts, rmu, dx, dy, dz, dxError, dyError, dzError,
                   alpha>>
    /\ UNCHANGED <<initCalls, sparseVars, kernelVars>>

\* faulty variant: the iteration cap is tested before the convergence test
ConvergenceCheckAfterCap ==
    /\ pc = "conv"
    /\ events' = Append(events, <<"conv", numIts>>)
    /\ rb' = PrimalResidual(A, b, x)
    /\ rc' = DualResidual(A, c, y, z)
    /\ IF numIts = ctrl.maxIts
       THEN /\ pc' = "failed"
            /\ err' = "IterationLimitExceeded"
            /\ out' = out
       ELSE /\ err' = err
            /\ IF /\ RLe(ObjConv(b, c, x, y), ctrl.tol)
                  /\ RbConvLe(rb', b, ctrl.tol)
                  /\ RcConvLe(rc', c, ctrl.tol)
               THEN /\ pc' = "converged"
                    /\ out' = out
               ELSE /\ pc' = "cap"
                    /\ out' = IF ctrl.print
                              THEN Append(out, <<"iter", numIts>>)
                              ELSE out
    /\ Issue([r \in Ranks |-> ConvergenceCheckOps(r)])
    /\ UNCHANGED <<variant, A, b, c, ctrl, x, y, z, args0, numIts,
                   errCounts, rmu, dx, dy, dz, dxError, dyError, dzError,
                   alpha>>
    /\ UNCHANGED <<initCalls, sparseVars, kernelVars>>

\* faulty variant: rb aliases b: the scaling by -1 is applied to b itself
ConvergenceCheckInPlace ==
    /\ pc = "conv"
    /\ events' = Append(events, <<"conv", numIts>>)
    /\ b' = Scale(RNeg(R1), b)
    /\ rb' = PrimalResidual(A, b, x)
    /\ rc' = DualResidual(A, c, y, z)
    /\ IF /\ RLe(ObjConv(b, c, x, y), ctrl.tol)
          /\ RbConvLe(rb', b, ctrl.tol)
          /\ RcConvLe(rc', c, ctrl.tol)
       THEN /\ pc' = "converged"
            /\ out' = out
       ELSE /\ pc' = "cap"
            /\ out' = IF ctrl.print THEN Append(out, <<"iter", numIts>>)
                      ELSE out
    /\ Issue([r \in Ranks |-> ConvergenceCheckOps(r)])
    /\ UNCHANGED <<variant, A, c, ctrl, x, y, z, args0, numIts, err,
                   errCounts, rmu, dx, dy, dz, dxError, dyError, dzError,
                   alpha>>
    /\ UNCHANGED <<initCalls, sparseVars, kernelVars>>

\* faulty variant: the ratios of an iteration are printed only after its
\* cap test, so the iteration that raises never prints them
ConvergenceCheckSilent ==
    /\ pc = "conv"
    /\ events' = Append(events, <<"conv", numIts>>)
    /\ rb' = PrimalResidual(A, b, x)
    /\ rc' = DualResidual(A, c, y, z)
    /\ IF /\ RLe(ObjConv(b, c, x, y), ctrl.tol)
          /\ RbConvLe(rb', b, ctrl.tol)
          /\ RcConvLe(rc', c, ctrl.tol)
       THEN /\ pc' = "converged"
            /\ out' = out
       ELSE /\ pc' = "cap"
            /\ out' = IF ctrl.print /\ numIts # ctrl.maxIts
                      THEN Append(out, <<"iter", numIts>>)
                      ELSE out
    /\ Issue([r \in Ranks |-> ConvergenceCheckOps(r)])
    /\ UNCHANGED <<variant, A, b, c, ctrl, x, y, z, args0, numIts, err,
                   errCounts, rmu, dx, dy, dz, dxError, dyError, dzError,
                   alpha>>
    /\ UNCHANGED <<initCalls, sparseVars, kernelVars>>

\* Check for convergence
ConvergenceCheck ==
    /\ pc = "conv"
    /\ events' = Append(events, <<"conv", numIts>>)
    /\ rb' = PrimalResidual(A, b, x)
    /\ rc' = DualResidual(A, c, y, z)
    /\ IF /\ RLe(ObjConv(b, c, x, y), ctrl.tol)
          /\ RbConvLe(rb', b, ctrl.tol)
          /\ RcConvLe(rc', c, ctrl.tol)
       THEN /\ pc' = "converged"
            /\ out' = out
       ELSE /\ pc' = "cap"
            /\ out' = IF ctrl.print THEN Append(out, <<"iter", numIts>>)
                      ELSE out
    /\ Issue([r \in Ranks |-> ConvergenceCheckOps(r)])
    /\ UNCHANGED <<variant, A, b, c, ctrl, x, y, z, args0, numIts, err,
                   errCounts, rmu, dx, dy, dz, dxError, dyError, dzError,
                   alpha>>
    /\ UNCHANGED <<initCalls, sparseVars, kernelVars>>

\* faulty variant: the cap is compared with > instead of ==
IterationLimitLate ==
    /\ pc = "cap"
    /\ events' = Append(events, <<"cap", numIts>>)
    /\ IF numIts > ctrl.maxIts
       THEN /\ pc' = "failed"
            /\ err' = "IterationLimitExceeded"
       ELSE /\ numIts < MaxIts
            /\ pc' = "newton"
            /\ err' = err
    /\ Issue([r \in Ranks |-> IterationLimitOps(r)])
    /\ UNCHANGED <<variant, A, b, c, ctrl, x, y, z, args0, numIts, errCounts,
                   rb, rc, rmu, dx, dy, dz, dxError, dyError, dzError, alpha,
                   out>>
    /\ UNCHANGED <<initCalls, sparseVars, kernelVars>>

\* faulty variant: the cap is reached one iteration early
IterationLimitEarly ==
    /\ pc = "cap"
    /\ events' = Append(events, <<"cap", numIts>>)
    /\ IF numIts + 1 = ctrl.maxIts
       THEN /\ pc' = "failed"
            /\ err' = "IterationLimitExceeded"
       ELSE /\ numIts < MaxIts
            /\ pc' = "newton"
            /\ err' = err
    /\ Issue([r \in Ranks |-> IterationLimitOps(r)])
    /\ UNCHANGED <<variant, A, b, c, ctrl, x, y, z, args0, numIts, errCounts,
                   rb, rc, rmu, dx, dy, dz, dxError, dyError, dzError, alpha,
                   out>>
    /\ UNCHANGED <<initCalls, sparseVars, kernelVars>>

\* faulty variant: the sparse-distributed overload compares the cap with >
IterationLimitSparseLate ==
    /\ pc = "cap"
    /\ events' = Append(events, <<"cap", numIts>>)
    /\ IF (IF variant = "SparseDist" THEN numIts > ctrl.maxIts
           ELSE numIts = ctrl.maxIts)
       THEN /\ pc' = "failed"
            /\ err' = "IterationLimitExceeded"
       ELSE /\ numIts < MaxIts
            /\ pc' = "newton"
            /\ err' = err
    /\ Issue([r \in Ranks |-> IterationLimitOps(r)])
    /\ UNCHANGED <<variant, A, b, c, ctrl, x, y, z, args0, numIts, errCounts,
                   rb, rc, rmu, dx, dy, dz, dxError, dyError, dzError, alpha,
                   out>>
    /\ UNCHANGED <<initCalls, sparseVars, kernelVars>>

\* Raise an exception after an unacceptable number of iterations
IterationLimit ==
    /\ pc = "cap"
    /\ events' = Append(events, <<"cap", numIts>>)
    /\ IF numIts = ctrl.maxIts
       THEN /\ pc' = "failed"
            /\ err' = "IterationLimitExceeded"
       ELSE /\ numIts < MaxIts
            /\ pc' = "newton"
            /\ err' = err
    /\ Issue([r \in Ranks |-> IterationLimitOps(r)])
    /\ UNCHANGED <<variant, A, b, c, ctrl, x, y, z, args0, numIts, errCounts,
                   rb, rc, rmu, dx, dy, dz, dxError, dyError, dzError, alpha,
                   out>>
    /\ UNCHANGED <<initCalls, sparseVars, kernelVars>>

\* the debug build's "Sanity checks" block:
\* dzError = rmu + x o dz + z o dx, dyError = rc + A^T dy - dz,
\* dxError = rb + A dx
SanityCheck(A_, x_, z_, rb_, rc_, rmu_, d) ==
    [dzError |-> Tuple([i \in 1..Len(x_) |->
                    RAdd(rmu_[i], RAdd(RMul(x_[i], d.dz[i]),
                                       RMul(z_[i], d.dx[i])))]),
     dyError |-> Axpy(RNeg(R1), d.dz, Gemv("TRANSPOSE", R1, A_, d.dy, R1, rc_)),
     dxError |-> Gemv("NORMAL", R1, A_, d.dx, R1, rb_)]

\* faulty variant: when printing, the sanity block works on rmu itself
\* instead of the copy dzError
NewtonStepSanityInPlace ==
    /\ pc = "newton"
    /\ events' = Append(events, <<"newton", numIts>>)
    /\ IF Singular(SystemMatrix(ctrl.system, A, x, z))
       THEN /\ pc' = "failed"
            /\ err' = "FactorizationBreakdown"
            /\ rmu' = Rmu(x, z, ctrl.centering)
            /\ UNCHANGED <<dx, dy, dz, dxError, dyError, dzError, out>>
       ELSE LET r == Rmu(x, z, ctrl.centering)
                d == ComputeDirection(ctrl.system, A, c, x, z, rc, rb, r)
                e == SanityCheck(A, x, z, rb, rc, r, d)
            IN  /\ dx' = d.dx /\ dy' = d.dy /\ dz' = d.dz
                /\ dxError' = e.dxError
                /\ dyError' = e.dyError
                /\ dzError' = e.dzError
                /\ rmu' = IF ctrl.print THEN e.dzError ELSE r
                /\ out' = IF ctrl.print THEN Append(out, <<"errors", numIts>>)
                          ELSE out
                /\ pc' = "linesearch"
                /\ err' = err
    /\ SparseDirectSetup
    /\ Issue([r \in Ranks |-> NewtonStepOps(r)])
    /\ UNCHANGED <<variant, A, b, c, ctrl, x, y, z, args0, numIts, errCounts,
                   rb, rc, alpha>>
    /\ UNCHANGED <<initCalls, kernelVars>>

\* Compute the duality measure and r_mu, then the direction (dx,dy,dz)
NewtonStep ==
    /\ pc = "newton"
    /\ events' = Append(events, <<"newton", numIts>>)
    /\ rmu' = Rmu(x, z, ctrl.centering)
    /\ IF Singular(SystemMatrix(ctrl.system, A, x, z))
       THEN /\ pc' = "failed"
            /\ err' = "FactorizationBreakdown"
            /\ UNCHANGED <<dx, dy, dz, dxError, dyError, dzError, out>>
       ELSE LET d == ComputeDirection(ctrl.system, A, c, x, z, rc, rb, rmu')
                e == SanityCheck(A, x, z, rb, rc, rmu', d)
            IN  /\ dx' = d.dx /\ dy' = d.dy /\ dz' = d.dz
                /\ dxError' = e.dxError
                /\ dyError' = e.dyError
                /\ dzError' = e.dzError
                /\ out' = IF ctrl.print THEN Append(out, <<"errors", numIts>>)
                          ELSE out
                /\ pc' = "linesearch"
                /\ err' = err
    /\ SparseDirectSetup
    /\ Issue([r \in Ranks |-> NewtonStepOps(r)])
    /\ UNCHANGED <<variant, A, b, c, ctrl, x, y, z, args0, numIts, errCounts,
                   rb, rc, alpha>>
    /\ UNCHANGED <<initCalls, kernelVars>>

\* alpha = IPFLineSearch( ... )
LineSearch ==
    /\ pc = "linesearch"
    /\ events' = Append(events, <<"linesearch", numIts>>)
    /\ alpha' \in IPFLineSearch(x, z, dx, dz)
    /\ out' = IF ctrl.print THEN Append(out, <<"alpha", numIts>>) ELSE out
    /\ pc' = "update"
    /\ Issue([r \in Ranks |-> LineSearchOps(r)])
    /\ UNCHANGED <<variant, A, b, c, ctrl, x, y, z, args0, numIts, err,
                   errCounts, rb, rc, rmu, dx, dy, dz, dxError, dyError,
                   dzError>>
    /\ UNCHANGED <<initCalls, sparseVars, kernelVars>>

\* faulty variant: x is moved along dz instead of dx
TakeStepXAlongDz ==
    /\ pc = "update"
    /\ events' = Append(events, <<"update", numIts>>)
    /\ x' = Axpy(alpha, dz, x)
    /\ y' = Axpy(alpha, dy, y)
    /\ z' = Axpy(alpha, dz, z)
    /\ numIts' = numIts + 1
    /\ pc' = "cone"
    /\ Issue([r \in Ranks |-> TakeStepOps(r)])
    /\ UNCHANGED <<variant, A, b, c, ctrl, args0, err, errCounts,
                   rb, rc, rmu, dx, dy, dz, dxError, dyError, dzError, alpha,
                   out>>
    /\ UNCHANGED <<initCalls, sparseVars, kernelVars>>

\* Axpy( alpha, dx, x ); Axpy( alpha, dy, y ); Axpy( alpha, dz, z ); ++numIts
TakeStep ==
    /\ pc = "update"
    /\ events' = Append(events, <<"update", numIts>>)
    /\ x' = Axpy(alpha, dx, x)
    /\ y' = Axpy(alpha, dy, y)
    /\ z' = Axpy(alpha, dz, z)
    /\ numIts' = numIts + 1
    /\ pc' = "cone"
    /\ Issue([r \in Ranks |-> TakeStepOps(r)])
    /\ UNCHANGED <<variant, A, b, c, ctrl, args0, err, errCounts,
                   rb, rc, rmu, dx, dy, dz, dxError, dyError, dzError, alpha,
                   out>>
    /\ UNCHANGED <<initCalls, sparseVars, kernelVars>>

Next ==
    \/ SparseSerialIPF
    \/ Enter
    \/ ConeCheck
    \/ ConvergenceCheck
    \/ IterationLimit
    \/ NewtonStep
    \/ LineSearch
    \/ TakeStep

Spec == Init /\ [][Next]_vars

(***************************************************************************)
(* lq::ApplyQ: B := Q B, Q' B, B Q or B Q' for the Q of an LQ factorization *)
(***************************************************************************)
\* the largest height and width of B
MaxB == 2

ApplyQOverloads == {"Matrix", "DistMatrix"}
Sides == {"LEFT", "RIGHT"}
Orientations == {"NORMAL", "TRANSPOSE", "ADJOINT"}

\* d has one entry per reflector, and no more entries than B has rows
\* (LEFT) or columns (RIGHT)
ApplyQCalls ==
    {cl \in [overload : ApplyQOverloads, side : Sides,
             orientation : Orientations, dHeight : 0..MaxB,
             BHeight : 1..MaxB, BWidth : 1..MaxB] :
        cl.dHeight <= (IF cl.side = "LEFT" THEN cl.BHeight ELSE cl.BWidth)}

\* const bool applyDFirst = normal!=onLeft;
applyDFirst(side, orientation) ==
    LET normal == (orientation = "NORMAL")
        onLeft == (side = "LEFT")
    IN  normal # onLeft

\* faulty variant: the reflectors are applied forward whatever the side
directionForward(side, orientation) == "FORWARD"

\* const ForwardOrBackward direction = ( normal==onLeft ? FORWARD : BACKWARD )
direction(side, orientation) ==
    LET normal == (orientation = "NORMAL")
        onLeft == (side = "LEFT")
    IN  IF normal = onLeft THEN "FORWARD" ELSE "BACKWARD"

\* const Conjugation conjugation = ( normal ? CONJUGATED : UNCONJUGATED );
conjugation(orientation) ==
    IF orientation = "NORMAL" THEN "CONJUGATED" ELSE "UNCONJUGATED"

BEntries(cl) == (1..cl.BHeight) \X (1..cl.BWidth)

\* BTop = View( B, 0, 0, d.Height(), B.Width() ),
\* BLeft = View( B, 0, 0, B.Height(), d.Height() )
BView(cl) ==
    IF cl.side = "LEFT" THEN (1..cl.dHeight) \X (1..cl.BWidth)
    ELSE (1..cl.BHeight) \X (1..cl.dHeight)

\* DiagonalScale( side, orientation, d, BTop ) or ( ..., BLeft )
DiagonalScaleCall(cl) ==
    [op |-> "DiagonalScale", side |-> cl.side, orientation |-> cl.orientation,
     view |-> IF cl.side = "LEFT" THEN "BTop" ELSE "BLeft",
     uplo |-> "-", dir |-> "-", direction |-> "-", conjugation |-> "-",
     offset |-> 0, t |-> "-"]

\* ApplyPackedReflectors
\* ( side, UPPER, HORIZONTAL, direction, conjugation, 0, A, t, B )
ApplyPackedReflectorsCall(cl) ==
    [op |-> "ApplyPackedReflectors", side |-> cl.side, orientation |-> "-",
     view |-> "B", uplo |-> "UPPER", dir |-> "HORIZONTAL",
     direction |-> direction(cl.side, cl.orientation),
     conjugation |-> conjugation(cl.orientation),
     offset |-> 0,
     t |-> IF cl.overload = "DistMatrix" THEN "tDiag" ELSE "t"]

\* the scaling by d, run when first = applyDFirst
ApplyD(first) ==
    IF applyDFirst(applyQ.side, applyQ.orientation) = first
    THEN /\ applyQOps' = Append(applyQOps, DiagonalScaleCall(applyQ))
         /\ BScaled' = [e \in BEntries(applyQ) |->
                            IF e \in BView(applyQ) THEN BScaled[e] + 1
                            ELSE BScaled[e]]
    ELSE UNCHANGED <<applyQOps, BScaled>>

\* if( applyDFirst ) { ... }
ApplyDBefore ==
    /\ applyQPc = "start"
    /\ ApplyD(TRUE)
    /\ applyQPc' = "reflectors"
    /\ UNCHANGED <<applyQ, ipfVars, trsmVars>>

\* ApplyPackedReflectors( ... )
ApplyReflectors ==
    /\ applyQPc = "reflectors"
    /\ applyQOps' = Append(applyQOps, ApplyPackedReflectorsCall(applyQ))
    /\ applyQPc' = "after"
    /\ UNCHANGED <<applyQ, BScaled, ipfVars, trsmVars>>

\* if( !applyDFirst ) { ... }
ApplyDAfter ==
    /\ applyQPc = "after"
    /\ ApplyD(FALSE)
    /\ applyQPc' = "done"
    /\ UNCHANGED <<applyQ, ipfVars, trsmVars>>

ApplyQInit ==
    /\ IPFIdle
    /\ TrsmIdle
    /\ applyQ \in ApplyQCalls
    /\ applyQPc = "start"
    /\ applyQOps = <<>>
    /\ BScaled = [e \in BEntries(applyQ) |-> 0]

ApplyQNext ==
    \/ ApplyDBefore
    \/ ApplyReflectors
    \/ ApplyDAfter

ApplyQSpec == ApplyQInit /\ [][ApplyQNext]_vars

(***************************************************************************)
(* internal::TwoSidedTrsmLVar5: A := inv(L) A inv(L)', blocked             *)
(***************************************************************************)
\* the largest height and width of A and of L
MaxDim == 3
\* the largest algorithmic blocksize
MaxBlocksize == 2

TrsmOverloads == {"Matrix", "DistMatrix"}
\* with RELEASE defined the dimension checks are compiled out
Builds == {"debug", "RELEASE"}
Diags == {"UNIT", "NON_UNIT"}

TrsmCalls ==
    [overload : TrsmOverloads, build : Builds, diag : Diags,
     AHeight : 0..MaxDim, AWidth : 0..MaxDim,
     LHeight : 0..MaxDim, LWidth : 0..MaxDim,
     blocksize : 1..MaxBlocksize]

\* the three checks, in the order of the code; "none" when all pass
DimensionCheck(cl) ==
    IF cl.AHeight # cl.AWidth THEN "A must be square"
    ELSE IF cl.LHeight # cl.LWidth THEN "Triangular matrices must be square"
    ELSE IF cl.AHeight # cl.LHeight THEN "A and L must be the same size"
    ELSE "none"

\* RepartitionDownDiagonal: A11 is blocksize x blocksize, or what is left of
\* ABR when that is smaller
A11Height(cl, atl) ==
    IF cl.blocksize < cl.AHeight - atl THEN cl.blocksize
    ELSE cl.AHeight - atl

\* faulty variant: A22 is taken to be the whole of A
BlockWithA22AsA(name, atl, b11, n) ==
    CASE name = "A00" -> (1..atl) \X (1..atl)
      [] name = "A11" -> ((atl + 1)..(atl + b11)) \X ((atl + 1)..(atl + b11))
      [] name = "A21" -> ((atl + b11 + 1)..n) \X ((atl + 1)..(atl + b11))
      [] name = "A22" -> (1..n) \X (1..n)
      [] OTHER -> {}

\* the entries of A in a block of the 3 x 3 repartition with ATL = A00 of
\* height atl and A11 of height b11; a temporary has no entry of A
Block(name, atl, b11, n) ==
    CASE name = "A00" -> (1..atl) \X (1..atl)
      [] name = "A11" -> ((atl + 1)..(atl + b11)) \X ((atl + 1)..(atl + b11))
      [] name = "A21" -> ((atl + b11 + 1)..n) \X ((atl + 1)..(atl + b11))
      [] name = "A22" -> ((atl + b11 + 1)..n) \X ((atl + b11 + 1)..n)
      [] OTHER -> {}

\* the statements of one pass: <<routine, matrix written>>
PassCalls(overload) ==
    IF overload = "Matrix"
    THEN << <<"TwoSidedTrsmLUnb", "A11">>, <<"Zeros", "Y21">>,
            <<"Hemm", "Y21">>, <<"Trsm", "A21">>, <<"Axpy", "A21">>,
            <<"Her2k", "A22">>, <<"Axpy", "A21">>, <<"Trsm", "A21">> >>
    ELSE << <<"=", "L11_STAR_STAR">>, <<"=", "A11_STAR_STAR">>,
            <<"LocalTwoSidedTrsm", "A11_STAR_STAR">>, <<"=", "A11">>,
            <<"=", "L21_VC_STAR">>, <<"Zeros", "Y21_VC_STAR">>,
            <<"Hemm", "Y21_VC_STAR">>, <<"=", "Y21">>,
            <<"=", "A21_VC_STAR">>, <<"LocalTrsm", "A21_VC_STAR">>,
            <<"=", "A21">>, <<"Axpy", "A21">>,
            <<"=", "A21_MC_STAR">>, <<"=", "L21_MC_STAR">>,
            <<"=", "A21_VC_STAR">>, <<"=", "A21_VR_STAR">>,
            <<"=", "L21_VR_STAR">>, <<"AdjointFrom", "A21Adj_STAR_MR">>,
            <<"AdjointFrom", "L21Adj_STAR_MR">>, <<"LocalTrr2k", "A22">>,
            <<"Axpy", "A21">>, <<"Trsm", "A21">> >>

\* the entries of A the statements of one pass write
PassWrites(cl, atl) ==
    LET calls == PassCalls(cl.overload)
    IN  UNION {Block(calls[i][2], atl, A11Height(cl, atl), cl.AHeight) :
                   i \in 1..Len(calls)}

\* L and its views are const (Locked partitions): no statement writes them
LWrites(cl) ==
    LET calls == PassCalls(cl.overload)
    IN  {i \in 1..Len(calls) :
             calls[i][2] \in {"L", "LTL", "LBL", "LBR", "L00", "L10", "L11",
                              "L20", "L21", "L22"}}

\* #ifndef RELEASE ... three checks ... #endif, then the partitions with 0
TrsmEnter ==
    /\ trsmPc = "entry"
    /\ IF trsm.build = "debug" /\ DimensionCheck(trsm) # "none"
       THEN /\ trsmPc' = "failed"
            /\ trsmErr' = DimensionCheck(trsm)
       ELSE /\ trsmErr' = trsmErr
            \* without the checks, views over an A or L of other dimensions
            \* are not defined
            /\ trsmPc' = IF DimensionCheck(trsm) # "none" THEN "undefined"
                         ELSE "loop"
    /\ ATLHeight' = 0
    /\ UNCHANGED <<trsm, trsmPasses, LWritten, ipfVars, applyQVars>>

\* one pass of while( ATL.Height() < A.Height() )
TrsmPass ==
    /\ trsmPc = "loop"
    /\ ATLHeight < trsm.AHeight
    /\ trsmPasses' = Append(trsmPasses,
                            [atl |-> ATLHeight,
                             a11 |-> A11Height(trsm, ATLHeight),
                             wrote |-> PassWrites(trsm, ATLHeight)])
    /\ LWritten' = LWritten \cup LWrites(trsm)
    \* SlidePartitionDownDiagonal: ATL takes in A11
    /\ ATLHeight' = ATLHeight + A11Height(trsm, ATLHeight)
    /\ UNCHANGED <<trsm, trsmPc, trsmErr, ipfVars, applyQVars>>

\* the loop condition fails
TrsmReturn ==
    /\ trsmPc = "loop"
    /\ ~(ATLHeight < trsm.AHeight)
    /\ trsmPc' = "done"
    /\ UNCHANGED <<trsm, trsmErr, ATLHeight, trsmPasses, LWritten, ipfVars,
                   applyQVars>>

TrsmInit ==
    /\ IPFIdle
    /\ ApplyQIdle
    /\ trsm \in TrsmCalls
    /\ trsmPc = "entry"
    /\ trsmErr = "none"
    /\ ATLHeight = 0
    /\ trsmPasses = <<>>
    /\ LWritten = {}

TrsmNext ==
    \/ TrsmEnter
    \/ TrsmPass
    \/ TrsmReturn

\* a call runs on until it returns or throws
TrsmSpec == TrsmInit /\ [][TrsmNext]_vars /\ WF_vars(TrsmNext)

(***************************************************************************)
(* Vocabulary of the properties                                            *)
(***************************************************************************)
StepOrder == <<"cone", "conv", "cap", "newton", "linesearch", "update">>

\* the names of the steps executed in iteration k, in order
StepsOf(k) ==
    LET sel == SelectSeq(events, LAMBDA e : e[2] = k)
    IN  Tuple([i \in 1..Len(sel) |-> sel[i][1]])

IsPrefix(s, t) == Len(s) <= Len(t) /\ s = SubSeq(t, 1, Len(s))

Zeros(n) == Tuple([i \in 1..n |-> R0])

IterateInCone == InCone(x) /\ InCone(z)

\* the three ratios, computed from the current (x,y,z), are all <= tol
RatiosWithinTol == Converged(A, b, c, x, y, z, ctrl.tol)

\* the iterate the caller passed is the iterate the caller has now
IterateUntouched == x = args0.x /\ y = args0.y /\ z = args0.z

\* the iterate entering iteration 0 has x > 0 and z > 0
StartInCone ==
    ~ctrl.initialized \/ (InCone(args0.x) /\ InCone(args0.z))

Gram(A_) ==
    Tuple([i \in 1..Height(A_) |->
        Tuple([j \in 1..Height(A_) |->
            RSum(Tuple([k \in 1..Width(A_) |-> RMul(A_[i][k], A_[j][k])]))])])

FullRowRank(A_) == ~Singular(Gram(A_))

\* some x > 0 with A x = b is optimal: A^T y + c = 0 for some y (z = 0)
HasInteriorOptimum(A_, b_, c_) ==
    \E xs \in [1..Width(A_) -> 1..2], ys \in [1..Height(A_) -> -2..2] :
        /\ PrimalResidual(A_, b_, RV(xs)) = Zeros(Height(A_))
        /\ DualResidual(A_, c_, RV(ys), Zeros(Width(A_))) = Zeros(Width(A_))

WellPosed == FullRowRank(A) /\ HasInteriorOptimum(A, b, c)

(***************************************************************************)
(* C1: at the entry of every iteration the non-positive entries of x and   *)
(* of z are counted; a positive count fails the call with InfeasibleIterate*)
(* carrying exactly the two counts, before any residual is evaluated and   *)
(* before (x,y,z) is updated in that iteration; with both counts zero the  *)
(* error is not raised and the iteration goes on.                          *)
(***************************************************************************)
C1_ConeCheckAtEntry ==
    /\ (err = "InfeasibleIterate" =>
            /\ pc = "failed"
            /\ errCounts = <<NumNonPositive(x), NumNonPositive(z)>>
            /\ errCounts[1] > 0 \/ errCounts[2] > 0
            /\ StepsOf(numIts) = <<"cone">>)
    /\ (\/ pc \in {"conv", "cap", "newton", "linesearch", "update", "converged"}
        \/ err \in {"IterationLimitExceeded", "FactorizationBreakdown"}
            => /\ IterateInCone
               /\ err # "InfeasibleIterate"
               /\ Head(StepsOf(numIts)) = "cone")
    /\ \A k \in 0..numIts : StepsOf(k) # <<>> => Head(StepsOf(k)) = "cone"

C1_Witness ==
    /\ err = "InfeasibleIterate"
    /\ errCounts = <<2, 0>>
    /\ variant = "SparseDist"

C3_MaxItsZeroKeepsIterate ==
    (/\ variant \in Iterating
     /\ ctrl.maxIts = 0
     /\ pc \in Terminal
     /\ InCone(args0.x) /\ InCone(args0.z)
     /\ ~Converged(A, b, c, args0.x, args0.y, args0.z, ctrl.tol)) =>
        /\ err = "IterationLimitExceeded"
        /\ numIts = 0
        /\ IterateUntouched

(***************************************************************************)
(* C3 (amended): with maxIts = 0 the call ends in iteration 0 without a    *)
(* step; it raises IterationLimitExceeded, after the cone check, the       *)
(* convergence test and the cap test, when the iterate entering iteration  *)
(* 0 is in the cone and not converged; that iterate is the caller's        *)
(* (x,y,z), left as they were, when initialized is true, and is the        *)
(* initializer's output, which replaces the caller's (x,y,z), when         *)
(* initialized is false; this for every system value.                      *)
(***************************************************************************)
C3_MaxItsZeroTakesNoStep ==
    (variant \in Iterating /\ ctrl.maxIts = 0 /\ pc \in Terminal) =>
        /\ numIts = 0
        /\ ctrl.initialized => IterateUntouched
        /\ ~ctrl.initialized =>
                [x |-> x, y |-> y, z |-> z] \in Initialize(A, b, c)
        /\ (IterateInCone /\ ~RatiosWithinTol) <=>
                err = "IterationLimitExceeded"
        /\ err = "IterationLimitExceeded" =>
                events = <<<<"cone", 0>>, <<"conv", 0>>, <<"cap", 0>>>>

C3_Witness ==
    /\ ctrl.maxIts = 0
    /\ ctrl.initialized
    /\ err = "IterationLimitExceeded"
    /\ ctrl.system = "NORMAL_KKT"

(***************************************************************************)
(* C4: the sparse-serial overload fails with the unsupported-              *)
(* representation error on every call and does nothing else: no            *)
(* initializer, residual, solve or update; A, b, c, x, y, z are unchanged. *)
(***************************************************************************)
C4_SparseSerialAlwaysFails ==
    variant = "SparseSerial" =>
        /\ pc \in {"entry", "failed"}
        /\ pc = "entry" => ENABLED SparseSerialIPF
        /\ pc = "failed" => err = "UnsupportedRepresentation"
        /\ pc = "entry" => err = "none"
        /\ IterateUntouched
        /\ A = args0.A /\ b = args0.b /\ c = args0.c
        /\ events = <<>> /\ out = <<>> /\ numIts = 0
        /\ rb = <<>> /\ rc = <<>> /\ rmu = <<>>
        /\ dx = <<>> /\ dy = <<>> /\ dz = <<>>

C4_Witness ==
    /\ variant = "SparseSerial"
    /\ pc = "failed"
    /\ ~ctrl.initialized

(***************************************************************************)
(* C5: in every iteration the steps run in the order cone check,           *)
(* convergence test, cap test, Newton step, line search, update; an        *)
(* iterate within the tolerance at numIts = maxIts makes the call return   *)
(* normally; IterationLimitExceeded is raised only at numIts = maxIts for  *)
(* an iterate that passed the cone check and failed the convergence test;  *)
(* CONVERGED and FAILED are terminal and exclude each other.               *)
(***************************************************************************)
C5_CheckOrder ==
    /\ \A k \in 0..numIts : IsPrefix(StepsOf(k), StepOrder)
    /\ \A i \in 1..Len(events) :
            /\ events[i][2] \in 0..numIts
            /\ i > 1 => events[i - 1][2] <= events[i][2]
    /\ (/\ variant \in Iterating /\ pc \in Terminal
        /\ numIts = ctrl.maxIts /\ IterateInCone /\ RatiosWithinTol)
            => pc = "converged"
    /\ err = "IterationLimitExceeded" =>
            /\ pc = "failed"
            /\ numIts = ctrl.maxIts
            /\ IterateInCone
            /\ ~RatiosWithinTol
            /\ StepsOf(numIts) = <<"cone", "conv", "cap">>
    /\ pc = "converged" => err = "none" /\ StepsOf(numIts) = <<"cone", "conv">>
    /\ pc = "failed" <=> err # "none"
    /\ pc \in Terminal => ~ENABLED Next

C5_Witness ==
    /\ pc = "converged"
    /\ numIts = ctrl.maxIts
    /\ numIts >= 1

(***************************************************************************)
(* C6: for the same A, b, c, iterate with x > 0 and z > 0, and centering,  *)
(* FULL_KKT, AUGMENTED_KKT and NORMAL_KKT yield the same direction         *)
(* (dx,dy,dz), which is the direction the loop steps along.                *)
(***************************************************************************)
C6_FormulationsAgree ==
    pc = "linesearch" =>
        LET full == ComputeDirection("FULL_KKT", A, c, x, z, rc, rb, rmu)
            aug == ComputeDirection("AUGMENTED_KKT", A, c, x, z, rc, rb, rmu)
            nor == ComputeDirection("NORMAL_KKT", A, c, x, z, rc, rb, rmu)
        IN  /\ full = aug
            /\ aug = nor
            /\ [dx |-> dx, dy |-> dy, dz |-> dz] = nor

C6_Witness ==
    /\ pc = "linesearch"
    /\ numIts = 1
    /\ ctrl.system = "AUGMENTED_KKT"
    /\ Len(x) = 2 /\ x[1] # x[2]
    /\ dx # Zeros(2)

(***************************************************************************)
(* C7: the direction (dx,dy,dz) the expander delivers satisfies            *)
(* A dx + r_b = 0, A^T dy - dz + r_c = 0 and x o dz + z o dx + r_mu = 0    *)
(* with r_b = A x - b, r_c = A^T y - z + c, r_mu = x o z - centering mu 1  *)
(* and mu = x^T z / n; these are the residuals of the sanity check.        *)
(***************************************************************************)
C7_DirectionSolvesNewtonSystem ==
    pc = "linesearch" =>
        LET n == Len(x)
            mu == RDiv(Dot(x, z), <<n, 1>>)
            r_b == Tuple([i \in 1..Len(b) |->
                      RSub(RSum(Tuple([j \in 1..n |-> RMul(A[i][j], x[j])])),
                           b[i])])
            r_c == Tuple([j \in 1..n |->
                      RAdd(RSub(RSum(Tuple([i \in 1..Len(y) |->
                                        RMul(A[i][j], y[i])])), z[j]), c[j])])
            r_mu == Tuple([j \in 1..n |->
                      RSub(RMul(x[j], z[j]), RMul(ctrl.centering, mu))])
        IN  /\ Gemv("NORMAL", R1, A, dx, R1, r_b) = Zeros(Len(b))
            /\ Axpy(RNeg(R1), dz, Gemv("TRANSPOSE", R1, A, dy, R1, r_c))
                    = Zeros(n)
            /\ \A j \in 1..n :
                    RAdd(RAdd(RMul(x[j], dz[j]), RMul(z[j], dx[j])), r_mu[j])
                        = R0
            /\ dxError = Zeros(Len(b))
            /\ dyError = Zeros(n)
            /\ dzError = Zeros(n)

C7_Witness ==
    /\ pc = "linesearch"
    /\ ctrl.system = "FULL_KKT"
    /\ rb # Zeros(Len(b))
    /\ rc # Zeros(Len(c))
    /\ dx # Zeros(Len(x))

(***************************************************************************)
(* C8 (as stated): from a start with x > 0 and z > 0, on a problem with    *)
(* full-row-rank A and a strictly interior optimal solution, the call      *)
(* ends in CONVERGED, never in IterationLimitExceeded or InfeasibleIterate.*)
(***************************************************************************)
C8_AlwaysConverges ==
    (/\ variant \in Iterating /\ pc \in Terminal
     /\ StartInCone /\ WellPosed) => pc = "converged"

(***************************************************************************)
(* C8 (amended): on such inputs a call that ends is in CONVERGED or, when  *)
(* the tolerance is not met at iteration numIts = maxIts (maxIts = 0 with  *)
(* a start that is not converged, for one), in IterationLimitExceeded      *)
(* after exactly maxIts steps; it never ends in InfeasibleIterate; a       *)
(* maxIts >= 0 is never passed.                                            *)
(***************************************************************************)
C8_ConvergesOrHitsTheCap ==
    (variant \in Iterating /\ StartInCone /\ WellPosed) =>
        /\ ctrl.maxIts >= 0 => numIts <= ctrl.maxIts
        /\ pc \in Terminal =>
            \/ pc = "converged" /\ IterateInCone /\ RatiosWithinTol
            \/ /\ err = "IterationLimitExceeded"
               /\ numIts = ctrl.maxIts
               /\ ~RatiosWithinTol

C8_Witness ==
    /\ variant \in Iterating /\ StartInCone /\ WellPosed
    /\ ctrl.initialized
    /\ pc = "converged"
    /\ numIts >= 1 /\ numIts <= ctrl.maxIts

(***************************************************************************)
(* C9: if the iterate entering iteration 0 has x > 0 and z > 0 and every   *)
(* line search returns 0 < alpha <= 1 with x + alpha dx > 0 and            *)
(* z + alpha dz > 0, then after the update of x, y, z with that one alpha  *)
(* the next cone check passes: InfeasibleIterate is never raised.          *)
(***************************************************************************)
C9_ConeInvariantInductive ==
    /\ (variant \in Iterating /\ StartInCone) => err # "InfeasibleIterate"
    /\ (pc = "cone" /\ numIts >= 1) => IterateInCone
    /\ pc = "update" =>
            /\ RLt(R0, alpha) /\ RLe(alpha, R1)
            /\ InCone(Axpy(alpha, dx, x))
            /\ InCone(Axpy(alpha, dz, z))

C9_Witness ==
    /\ pc = "conv"
    /\ numIts >= 1
    /\ alpha = <<1, 2>>
    /\ ~InCone(Axpy(alpha, dx, x)) \/ ~InCone(Axpy(alpha, dz, z))

(***************************************************************************)
(* C10: A, b, c and ctrl are never written, at any step and on any exit    *)
(* path; of the caller's arguments only x, y, z are.                       *)
(***************************************************************************)
C10_ProblemDataReadOnly ==
    /\ A = args0.A
    /\ b = args0.b
    /\ c = args0.c
    /\ ctrl = args0.ctrl

C10_Witness ==
    /\ pc = "failed"
    /\ err = "IterationLimitExceeded"
    /\ numIts >= 1
    /\ x # args0.x /\ y # args0.y /\ z # args0.z

\* the line was written to std::cout in iteration k
Printed(line, k) == \E i \in 1..Len(out) : out[i] = <<line, k>>

(***************************************************************************)
(* C11 (as stated): with print set, a fatal error raised at iteration k,   *)
(* InfeasibleIterate as well as IterationLimitExceeded, comes after the    *)
(* ratios of every iteration 0..k, those of iteration k included, were     *)
(* printed.                                                                *)
(***************************************************************************)
C11_DiagnosticsBeforeEveryError ==
    (/\ ctrl.print
     /\ err \in {"InfeasibleIterate", "IterationLimitExceeded"}) =>
        \A k \in 0..numIts : Printed("iter", k)

(***************************************************************************)
(* C11 (amended): with print set, IterationLimitExceeded raised at         *)
(* iteration k comes after the ratios of every iteration 0..k, those of k  *)
(* included, were printed; InfeasibleIterate raised at iteration k comes   *)
(* after the ratios of iterations 0..k-1 only: the cone check of iteration *)
(* k fails before that iteration's ratios are computed or printed.         *)
(***************************************************************************)
C11_DiagnosticsBeforeErrors ==
    /\ (ctrl.print /\ err = "IterationLimitExceeded") =>
            /\ \A k \in 0..numIts : Printed("iter", k)
            /\ out[Len(out)] = <<"iter", numIts>>
    /\ (ctrl.print /\ err = "InfeasibleIterate") =>
            /\ \A k \in 0..(numIts - 1) : Printed("iter", k)
            /\ ~Printed("iter", numIts)
    /\ ~ctrl.print => out = <<>>

C11_Witness ==
    /\ ctrl.print
    /\ err = "IterationLimitExceeded"
    /\ numIts >= 1
    /\ variant = "DenseDist"

\* the loop has reached the factorization of J at least once
Factored == variant = "SparseDist" /\ frontTree.at >= 0

\* the unknown whose equation is row k (1-based) of J
BlockOf(system, m, n, k) ==
    IF system = "FULL_KKT"
    THEN (IF k <= n THEN "x" ELSE IF k <= n + m THEN "y" ELSE "z")
    ELSE IF system = "AUGMENTED_KKT"
    THEN (IF k <= n THEN "x" ELSE "y")
    ELSE "y"

\* +eps^0.75 for x, -eps^0.5 for y, -eps^0.5 for z
BlockRegularization(block) ==
    IF block = "x" THEN [sign |-> 1, pow |-> <<3, 4>>]
    ELSE [sign |-> -1, pow |-> <<1, 2>>]

\* regularized LDL of J with the pivot tolerance and the candidate
\* regularization by block, and no a-priori regularization
RegularizedByBlock ==
    LET m == Height(A)
        n == Width(A)
        J == frontTree.J
    IN  /\ factorization.routine = "RegularizedLDL"
        /\ factorization.pivTol = MaxNorm(J)
        /\ Len(factorization.regCand) = Len(J)
        /\ \A k \in 1..Len(J) :
                factorization.regCand[k]
                    = BlockRegularization(BlockOf(ctrl.system, m, n, k))
        /\ factorization.reg = Zeros(Len(J))

(***************************************************************************)
(* C12: in one sparse-distributed solve the loop runs nested dissection at *)
(* most once, and only in iteration 0; every later iteration builds the    *)
(* frontal tree with that same ordering, and the frontal tree is           *)
(* initialized from the current J in every iteration that reaches the      *)
(* solve.                                                                  *)
(***************************************************************************)
C12_NestedDissectionOnce ==
    variant = "SparseDist" =>
        /\ Len(ndIts) <= 1
        /\ \A i \in 1..Len(ndIts) : ndIts[i] = 0
        /\ ordering.at \in {-1, 0}
        /\ Factored =>
            /\ frontTree.ordering = ordering
            /\ frontTree.at <= numIts
        /\ (pc \in {"linesearch", "update"}
            \/ err = "FactorizationBreakdown") =>
            /\ frontTree.at = numIts
            /\ frontTree.J = SystemMatrix(ctrl.system, A, x, z)

C12_Witness ==
    /\ variant = "SparseDist"
    /\ pc = "linesearch"
    /\ numIts >= 1
    /\ ndIts = <<0>>
    /\ frontTree.at = numIts
    /\ frontTree.ordering.at = 0

(***************************************************************************)
(* C13: on the sparse-distributed path, for every initialized and system,  *)
(* the ordering every factorization uses is defined and was computed for   *)
(* the formulation in use; it is the initializer's only when initialized   *)
(* is false and system is AUGMENTED_KKT, and otherwise the loop's own,     *)
(* computed from J in iteration 0, the initializer's being discarded.      *)
(***************************************************************************)
C13_OrderingDefinedForFormulation ==
    /\ Factored =>
        /\ frontTree.ordering.by \in {"Initialize", "NestedDissection"}
        /\ frontTree.ordering.system = ctrl.system
        /\ frontTree.ordering.size = Len(frontTree.J)
        /\ (frontTree.ordering.by = "Initialize")
                <=> (~ctrl.initialized /\ ctrl.system = "AUGMENTED_KKT")
        /\ frontTree.ordering.by = "NestedDissection" =>
                frontTree.ordering.at = 0 /\ ndIts = <<0>>
        /\ frontTree.ordering.by = "Initialize" => ndIts = <<>>
    /\ (variant = "SparseDist" /\ ordering.by = "Initialize") =>
            (~ctrl.initialized /\ ctrl.system = "AUGMENTED_KKT")

C13_Witness ==
    /\ Factored
    /\ ~ctrl.initialized
    /\ ctrl.system = "AUGMENTED_KKT"
    /\ frontTree.ordering.by = "Initialize"
    /\ frontTree.at = 1

Collectives(ops) ==
    SelectSeq(ops, LAMBDA op : op[1] \in {"call", "decision"})

\* the operations of a process that involve no other process
RankLocal(ops) ==
    SelectSeq(ops, LAMBDA op : op[1] \in {"cout", "local"})

\* C15: in the distributed overloads every process issues the same sequence
\* of collective operations and takes the same control decisions; what a
\* process does on its own (printing on rank 0, the local-column loop of the
\* sanity check) is made of writes to std::cout and local accesses only,
\* and only rank 0 prints.
C15_SameCollectivesOnEveryRank ==
    \A r \in Ranks :
        /\ Collectives(workers[r]) = Collectives(workers[0])
        /\ Len(Collectives(workers[r])) + Len(RankLocal(workers[r]))
               = Len(workers[r])
        /\ r # 0 => \A i \in 1..Len(workers[r]) : workers[r][i][1] # "cout"

\* a printing dense-distributed call in its second iteration: rank 0 has
\* printed and run the local-column loop, rank 1 has done neither
C15_Witness ==
    /\ variant = "DenseDist"
    /\ ctrl.print
    /\ numIts >= 1
    /\ pc = "cap"
    /\ \E i \in 1..Len(workers[0]) : workers[0][i] = Cout("errors")
    /\ \E i \in 1..Len(workers[0]) : workers[0][i] = Local("UpdateLocal")
    /\ RankLocal(workers[1]) = <<>>
    /\ Len(workers[1]) > 0

\* the controller of the loop: position, iteration number, error, steps
\* executed so far, calls of the initializer
Controller == [pc |-> pc, numIts |-> numIts, err |-> err, events |-> events,
               initCalls |-> initCalls]

\* the controller after one step, from the controller before it,
\* ctrl.initialized, ctrl.maxIts and the outcomes of the step's tests; the
\* overload that runs is no argument
ControllerNext(ctl, initialized, maxIts, inCone, converged, solved) ==
    LET log == IF ctl.pc = "entry" THEN ctl.events
               ELSE Append(ctl.events, <<ctl.pc, ctl.numIts>>)
        to(p, e) == [ctl EXCEPT !.pc = p, !.err = e, !.events = log]
    IN  CASE ctl.pc = "entry" ->
                 [ctl EXCEPT !.pc = "cone",
                             !.initCalls = IF initialized THEN 0 ELSE 1]
          [] ctl.pc = "cone" ->
                 IF inCone THEN to("conv", ctl.err)
                 ELSE to("failed", "InfeasibleIterate")
          [] ctl.pc = "conv" ->
                 IF converged THEN to("converged", ctl.err)
                 ELSE to("cap", ctl.err)
          [] ctl.pc = "cap" ->
                 IF ctl.numIts = maxIts
                 THEN to("failed", "IterationLimitExceeded")
                 ELSE to("newton", ctl.err)
          [] ctl.pc = "newton" ->
                 IF solved THEN to("linesearch", ctl.err)
                 ELSE to("failed", "FactorizationBreakdown")
          [] ctl.pc = "linesearch" -> to("update", ctl.err)
          [] ctl.pc = "update" ->
                 [ctl EXCEPT !.pc = "cone", !.numIts = ctl.numIts + 1,
                             !.events = log]

\* one step of an iterating overload moves the controller as ControllerNext
\* says
ControllerStep ==
    variant \in Iterating =>
        Controller' = ControllerNext(Controller, ctrl.initialized,
                          ctrl.maxIts,
                          InCone(x) /\ InCone(z),
                          Converged(A, b, c, x, y, z, ctrl.tol),
                          ~Singular(SystemMatrix(ctrl.system, A, x, z)))

NumUpdates == Len(SelectSeq(events, LAMBDA e : e[1] = "update"))

CapOf(maxIts) == IF maxIts > 0 THEN maxIts ELSE 0

\* C17: for every integer maxIts, zero and negative included, a call updates
\* (x,y,z) at most max(maxIts, 0) times, and a call that ends in
\* IterationLimitExceeded has updated exactly maxIts times.
C17_UpdatesBoundedByCap ==
    variant \in Iterating =>
        /\ NumUpdates <= CapOf(ctrl.maxIts)
        /\ err = "IterationLimitExceeded" => NumUpdates = ctrl.maxIts

\* what a call computes: iterate, residuals, direction, step length, position,
\* iteration number, error
Computation ==
    [x |-> x, y |-> y, z |-> z, rb |-> rb, rc |-> rc, rmu |-> rmu,
     dx |-> dx, dy |-> dy, dz |-> dz, alpha |-> alpha,
     pc |-> pc, numIts |-> numIts, err |-> err]

\* the computations one step may lead to, from the computation before it, the
\* problem data and the fields of ctrl other than print; neither print nor
\* what has been printed is an argument
ComputationNext(cmp, A_, b_, c_, initialized, tol, maxIts, centering, system) ==
    CASE cmp.pc = "entry" ->
             IF initialized THEN {[cmp EXCEPT !.pc = "cone"]}
             ELSE {[cmp EXCEPT !.pc = "cone", !.x = s.x, !.y = s.y,
                               !.z = s.z] : s \in Initialize(A_, b_, c_)}
      [] cmp.pc = "cone" ->
             IF InCone(cmp.x) /\ InCone(cmp.z)
             THEN {[cmp EXCEPT !.pc = "conv"]}
             ELSE {[cmp EXCEPT !.pc = "failed", !.err = "InfeasibleIterate"]}
      [] cmp.pc = "conv" ->
             {[cmp EXCEPT !.rb = PrimalResidual(A_, b_, cmp.x),
                          !.rc = DualResidual(A_, c_, cmp.y, cmp.z),
                          !.pc = IF Converged(A_, b_, c_, cmp.x, cmp.y,
                                              cmp.z, tol)
                                 THEN "converged" ELSE "cap"]}
      [] cmp.pc = "cap" ->
             IF cmp.numIts = maxIts
             THEN {[cmp EXCEPT !.pc = "failed",
                               !.err = "IterationLimitExceeded"]}
             ELSE {[cmp EXCEPT !.pc = "newton"]}
      [] cmp.pc = "newton" ->
             LET r == Rmu(cmp.x, cmp.z, centering)
             IN  IF Singular(SystemMatrix(system, A_, cmp.x, cmp.z))
                 THEN {[cmp EXCEPT !.rmu = r, !.pc = "failed",
                                   !.err = "FactorizationBreakdown"]}
                 ELSE LET d == ComputeDirection(system, A_, c_, cmp.x, cmp.z,
                                                cmp.rc, cmp.rb, r)
                      IN  {[cmp EXCEPT !.rmu = r, !.dx = d.dx, !.dy = d.dy,
                                       !.dz = d.dz, !.pc = "linesearch"]}
      [] cmp.pc = "linesearch" ->
             {[cmp EXCEPT !.alpha = a, !.pc = "update"] :
                  a \in IPFLineSearch(cmp.x, cmp.z, cmp.dx, cmp.dz)}
      [] cmp.pc = "update" ->
             {[cmp EXCEPT !.x = Axpy(cmp.alpha, cmp.dx, cmp.x),
                          !.y = Axpy(cmp.alpha, cmp.dy, cmp.y),
                          !.z = Axpy(cmp.alpha, cmp.dz, cmp.z),
                          !.numIts = cmp.numIts + 1, !.pc = "cone"]}

\* one step of an iterating overload leads to a computation that
\* ComputationNext allows
ComputationStep ==
    variant \in Iterating =>
        Computation' \in ComputationNext(Computation, A, b, c,
                             ctrl.initialized, ctrl.tol, ctrl.maxIts,
                             ctrl.centering, ctrl.system)

\* C18: print does not interfere with the computation: every step takes
\* (x, y, z, rb, rc, rmu, dx, dy, dz, alpha, position, iteration number,
\* error) to a value determined by these, the problem data and the fields of
\* ctrl other than print, so two calls that differ only in print go through
\* the same iterates, directions and step lengths to the same end; the
\* sanity block and the printing change none of x, y, z, dx, dy, dz, rb, rc,
\* rmu.
C18_PrintDoesNotInterfere == [][ComputationStep]_vars

\* a printing call that has printed ratios, sanity errors and a step length
\* in iteration 0 and has ended after at least one update
C18_Witness ==
    /\ variant \in Iterating
    /\ ctrl.print
    /\ Printed("iter", 0) /\ Printed("errors", 0) /\ Printed("alpha", 0)
    /\ numIts >= 1
    /\ pc \in {"converged", "failed"}
    /\ x # args0.x

\* the shape of a call sequence: which routine, and for the reflectors in
\* which direction
Shape(ops) ==
    Tuple([i \in 1..Len(ops) |-> <<ops[i].op, ops[i].direction>>])

\* a sequence of calls read backwards, with the reflectors reversed
Mirror(shape) ==
    Tuple([i \in 1..Len(shape) |->
        LET e == shape[Len(shape) + 1 - i]
        IN  <<e[1], IF e[2] = "FORWARD" THEN "BACKWARD"
                    ELSE IF e[2] = "BACKWARD" THEN "FORWARD" ELSE e[2]>>])

\* the shape of the calls lq::ApplyQ makes for a side and an orientation
ApplyQShape(side, orientation) ==
    LET scale == <<"DiagonalScale", "-">>
        reflect == <<"ApplyPackedReflectors", direction(side, orientation)>>
    IN  IF applyDFirst(side, orientation) THEN <<scale, reflect>>
        ELSE <<reflect, scale>>

\* C19: a finished call of lq::ApplyQ has scaled by d once and applied the
\* reflectors once, the scaling first iff (orientation = NORMAL) # (side =
\* LEFT), the reflectors FORWARD iff (orientation = NORMAL) = (side = LEFT)
\* and CONJUGATED iff orientation = NORMAL; the calls of an ADJOINT call are
\* those of the NORMAL call on the same side in the opposite order with the
\* direction reversed; the scaling went once over the first d.Height() rows
\* (LEFT) or columns (RIGHT) of B and over no other entry; the serial and
\* the distributed overload make the same calls.
C19_ApplyQCallSequence ==
    applyQPc = "done" =>
        LET normal == (applyQ.orientation = "NORMAL")
            onLeft == (applyQ.side = "LEFT")
            scales == SelectSeq(applyQOps,
                                LAMBDA op : op.op = "DiagonalScale")
            reflects == SelectSeq(applyQOps,
                            LAMBDA op : op.op = "ApplyPackedReflectors")
        IN  /\ Len(applyQOps) = 2
            /\ Len(scales) = 1
            /\ Len(reflects) = 1
            /\ (applyQOps[1].op = "DiagonalScale") <=> (normal # onLeft)
            /\ (reflects[1].direction = "FORWARD") <=> (normal = onLeft)
            /\ reflects[1].direction \in {"FORWARD", "BACKWARD"}
            /\ (reflects[1].conjugation = "CONJUGATED") <=> normal
            /\ reflects[1].conjugation \in {"CONJUGATED", "UNCONJUGATED"}
            /\ applyQ.orientation = "ADJOINT" =>
                   Shape(applyQOps) = Mirror(ApplyQShape(applyQ.side, "NORMAL"))
            /\ applyQ.orientation = "NORMAL" =>
                   Shape(applyQOps) = Mirror(ApplyQShape(applyQ.side, "ADJOINT"))
            /\ \A e \in BEntries(applyQ) :
                   BScaled[e] =
                       IF (IF onLeft THEN e[1] ELSE e[2]) <= applyQ.dHeight
                       THEN 1 ELSE 0
            /\ Shape(applyQOps) = ApplyQShape(applyQ.side, applyQ.orientation)
            /\ \A i \in 1..2 : applyQOps[i].side = applyQ.side

\* a finished distributed ADJOINT call from the right with fewer reflectors
\* than B has columns: reflectors first and backward, then the scaling,
\* which leaves the last column alone
C19_Witness ==
    /\ applyQPc = "done"
    /\ applyQ.overload = "DistMatrix"
    /\ applyQ.orientation = "ADJOINT"
    /\ applyQ.side = "RIGHT"
    /\ applyQ.dHeight = 1 /\ applyQ.BWidth = 2
    /\ applyQOps[1].op = "ApplyPackedReflectors"
    /\ BScaled[<<1, 1>>] = 1 /\ BScaled[<<1, 2>>] = 0

TrsmMessages == {"A must be square", "Triangular matrices must be square",
                 "A and L must be the same size"}

\* no failure but the three checks, each before A is touched; on valid
\* dimensions: L is never written, every pass has a non-empty A11 inside A
\* and starts where the one before it ended, no pass writes an entry of the
\* ATL it started with, and the call returns with ATL = A after no pass at
\* all when A is empty
TrsmSafety ==
    /\ trsmErr # "none" <=> trsmPc = "failed"
    /\ trsmPc = "failed" =>
           /\ trsmErr \in TrsmMessages
           /\ trsmErr = "A must be square" => trsm.AHeight # trsm.AWidth
           /\ trsmErr = "Triangular matrices must be square" =>
                  trsm.LHeight # trsm.LWidth
           /\ trsmErr = "A and L must be the same size" =>
                  trsm.AHeight # trsm.LHeight
           /\ trsmPasses = <<>>
           /\ LWritten = {}
    /\ DimensionCheck(trsm) = "none" =>
           /\ trsmPc \in {"entry", "loop", "done"}
           /\ LWritten = {}
           /\ ATLHeight <= trsm.AHeight
           /\ \A i \in 1..Len(trsmPasses) :
                  LET p == trsmPasses[i]
                  IN  /\ p.a11 >= 1
                      /\ p.atl + p.a11 <= trsm.AHeight
                      /\ p.atl = IF i = 1 THEN 0
                                 ELSE trsmPasses[i - 1].atl
                                          + trsmPasses[i - 1].a11
                      /\ \A e \in p.wrote : ~(e[1] <= p.atl /\ e[2] <= p.atl)
                      /\ p.wrote \subseteq
                             (1..trsm.AHeight) \X (1..trsm.AWidth)
           /\ trsmPc = "done" =>
                  /\ ATLHeight = trsm.AHeight
                  /\ trsm.AHeight = 0 => trsmPasses = <<>>
                  /\ Len(trsmPasses) <= trsm.AHeight

TrsmEnded ==
    \/ trsmPc = "failed"
    \/ trsmPc = "undefined"
    \/ trsmPc = "done" /\ ATLHeight = trsm.AHeight

\* C20: TwoSidedTrsmLVar5, serial and distributed, fails only in its three
\* dimension checks (A square, L square, equal heights), each with a logic
\* error before any entry of A is modified; on valid dimensions the loop
\* ends, ATL growing in every pass until it is A (no pass for an empty A),
\* L is never written and no pass writes into the ATL it started with.
C20_TrsmChecksThenTerminates == []TrsmSafety /\ <>TrsmEnded

\* a distributed call on a 3 x 3 A with blocksize 2 that has returned after
\* two passes, the second of which wrote only the last diagonal entry
C20_Witness ==
    /\ trsmPc = "done"
    /\ trsm.overload = "DistMatrix"
    /\ trsm.AHeight = 3 /\ trsm.blocksize = 2
    /\ Len(trsmPasses) = 2
    /\ trsmPasses[2].atl = 2
    /\ trsmPasses[2].wrote = {<<3, 3>>}
    /\ <<3, 1>> \in trsmPasses[1].wrote
====
